---------------------------- MODULE Spec2Model ----------------------------
(***************************************************************************)
(* Model of the gateway registration control loop of routr                 *)
(* (src/mod/registry/registry.js): the Caffeine registration cache, the    *)
(* REGISTER builder and dispatcher, and the timer task scheduled by        *)
(* start().  Time is wall-clock milliseconds (Date.now()).                 *)
(***************************************************************************)
EXTENDS Integers, Sequences, FiniteSets, TLC

(***************************************************************************)
(* Program constants.                                                      *)
(***************************************************************************)
checkExpiresTime == 1
InitialDelay == 10000
DefaultExpires == 3600

\* The timer period and the cache's expireAfterWrite, both in milliseconds.
Period == checkExpiresTime * 60 * 1000
WriteExpiry == checkExpiresTime * 60 * 1000

(***************************************************************************)
(* Bounds of the model.                                                    *)
(***************************************************************************)
\* Number of timer ticks explored.
MaxTicks == 3
\* REGISTER requests built (the cseq counter is capped here).
MaxCSeq == 3
\* REGISTER transactions outstanding at the SIP provider at one time.
MaxInFlight == 2

\* The clock moves in steps of half a period, and stops at every instant at
\* which the scheduled task is due.
TimeStep == (checkExpiresTime * 60 * 1000) \div 2
MaxTime == InitialDelay + MaxTicks * Period

\* Lifetimes (seconds) a registrar may grant in its 200 OK.
Lifetimes == {120, 150, 3600}

(***************************************************************************)
(* Values.                                                                 *)
(***************************************************************************)
\* JavaScript null / undefined.
Null == [nil |-> TRUE]
Undefined == [undef |-> TRUE]

\* Transports for which the SIP provider has a listening point, and the
\* address each is bound to.
ListeningPoints == {"udp"}
LPAddress == [host |-> "10.0.0.5", port |-> 5060]
\* config.spec.externAddr (not set).
externAddr == Undefined

\* Gateways the data store can return.  hasCredentials = FALSE stands for
\* spec.credentials === undefined, expires = 0 for an absent spec.expires and
\* hasRegistries = FALSE for spec.registries === undefined.
gwA == [ref |-> "gw1", hasCredentials |-> TRUE, username |-> "alice",
        host |-> "pbx", transport |-> "udp", expires |-> 0,
        hasRegistries |-> TRUE, registries |-> <<"pbx-a", "pbx-b">>]
gwB == [ref |-> "gw2", hasCredentials |-> TRUE, username |-> "bob",
        host |-> "trunk", transport |-> "udp", expires |-> 600,
        hasRegistries |-> FALSE, registries |-> <<>>]
gwN == [ref |-> "gw3", hasCredentials |-> FALSE, username |-> "carol",
        host |-> "open", transport |-> "udp", expires |-> 0,
        hasRegistries |-> TRUE, registries |-> <<"open-a">>]
gwT == [ref |-> "gw4", hasCredentials |-> TRUE, username |-> "dave",
        host |-> "far", transport |-> "sctp", expires |-> 0,
        hasRegistries |-> FALSE, registries |-> <<>>]

Gateways == {gwA, gwB, gwN, gwT}

\* What getGateways() can answer in a tick.
GatewayResponses ==
    { [status |-> "OK", result |-> <<gwA>>],
      [status |-> "OK", result |-> <<gwN, gwB>>],
      [status |-> "OK", result |-> <<gwT, gwB>>],
      [status |-> "INTERNAL_SERVER_ERROR", result |-> <<>>] }

\* Addresses InetAddress.getByName can resolve a host to.
HostAddresses == {"192.0.2.1"}

VARIABLES
    now,        \* Date.now(), milliseconds
    registry,   \* this.registry: key -> [value, writeTime]
    cseq,       \* the module-level CSeq counter
    timer,      \* "unstarted", "running" or "dead": the task scheduled by start()
    nextTick,   \* time at which the scheduled task is next due
    tickCount,  \* executions of the task so far
    tick,       \* position of the task that is running
    inflight,   \* REGISTERs handed to the SIP provider and not yet answered
    stopCalled, \* stop() has been called
    lastTick,   \* record of the current/most recent execution of the task
    lastExam,   \* record of the most recent examination of a gateway host
    lastStore,  \* the storeRegistry of the most recent response, if it stored
    watch,      \* per primary URI: the last stored record and the ticks since
    obs         \* the CSeq of every REGISTER built, the gateways whose dispatch
                \* failed, and what the step just taken replaced or dropped

vars == <<now, registry, cseq, timer, nextTick, tickCount, tick, inflight,
          stopCalled, lastTick, lastExam, lastStore, watch, obs>>

(***************************************************************************)
(* The Caffeine cache built with expireAfterWrite(checkExpiresTime, MIN).  *)
(***************************************************************************)
\* Variant of a cache built without expireAfterWrite.
HasExpiredNever(c, t, k) == FALSE

\* Variant in which an entry outlives the write-expiry by one clock reading.
HasExpiredLate(c, t, k) == t - c[k].writeTime > WriteExpiry

\* An entry whose write is WriteExpiry or more in the past is expired.
HasExpired(c, t, k) == t - c[k].writeTime >= WriteExpiry

getIfPresent(c, t, k) ==
    IF k \in DOMAIN c /\ ~HasExpired(c, t, k) THEN c[k].value ELSE Null

\* Variant that keeps the entry a key already has.
putIfAbsent(c, t, k, v) ==
    [x \in DOMAIN c \cup {k} |->
        IF x \in DOMAIN c THEN c[x] ELSE [value |-> v, writeTime |-> t]]

put(c, t, k, v) ==
    [x \in DOMAIN c \cup {k} |->
        IF x = k THEN [value |-> v, writeTime |-> t] ELSE c[x]]

invalidate(c, k) == [x \in DOMAIN c \ {k} |-> c[x]]

\* asMap(): the entries that have not expired.
asMap(c, t) == {k \in DOMAIN c : ~HasExpired(c, t, k)}

\* The cache's maintenance drops the expired entries.
expireEntries(c, t) == [x \in asMap(c, t) |-> c[x]]

(***************************************************************************)
(* Registry methods.                                                       *)
(***************************************************************************)
\* 'sip:' + username + '@' + host, and SipURI.toString() of such a URI.
GwURIStr(username, host) == "sip:" \o username \o "@" \o host
URIToString(gwURI) == "sip:" \o gwURI.user \o "@" \o gwURI.host

getLPAddress(transport, received, rport) ==
    IF transport \in ListeningPoints
    THEN LET host == IF externAddr # Undefined THEN externAddr ELSE LPAddress.host
             port == IF rport # Null THEN rport ELSE LPAddress.port
         IN  IF received # Null THEN [host |-> received, port |-> port]
                                ELSE [host |-> host, port |-> port]
    ELSE Undefined

\* Variants of the record with a wrong safety margin: one tick interval
\* instead of two, and none.
RegistryRecordOneInterval(t, gwURI, expires, ip) ==
    [username |-> gwURI.user,
     host |-> gwURI.host,
     ip |-> ip,
     expires |-> expires - 60 * checkExpiresTime,
     registeredOn |-> t,
     regOnFormatted |-> "a few seconds ago"]

RegistryRecordNoMargin(t, gwURI, expires, ip) ==
    [username |-> gwURI.user,
     host |-> gwURI.host,
     ip |-> ip,
     expires |-> expires,
     registeredOn |-> t,
     regOnFormatted |-> "a few seconds ago"]

\* The record storeRegistry builds.
RegistryRecord(t, gwURI, expires, ip) ==
    [username |-> gwURI.user,
     host |-> gwURI.host,
     ip |-> ip,
     expires |-> expires - 2 * 60 * checkExpiresTime,
     registeredOn |-> t,
     regOnFormatted |-> "a few seconds ago"]

\* Variant that does not write a record whose lifetime is used up by the
\* safety margin.
storeRegistrySkipsShort(c, t, gwURI, expires, ip) ==
    IF expires <= 2 * 60 * checkExpiresTime
    THEN c
    ELSE put(c, t, URIToString(gwURI), RegistryRecord(t, gwURI, expires, ip))

storeRegistry(c, t, gwURI, expires, ip) ==
    put(c, t, URIToString(gwURI), RegistryRecord(t, gwURI, expires, ip))

\* Variant that removes nothing.
removeRegistryNothing(c, gwURIStr) == c

removeRegistry(c, gwURIStr) == invalidate(c, gwURIStr)

listAsJSON(c, t) == {c[k].value : k \in asMap(c, t)}

\* Variant of isExpired that answers false while a REGISTER for the URI is
\* still unanswered.
isExpiredUnlessPending(c, t, gwURIStr) ==
    LET reg == getIfPresent(c, t, gwURIStr)
    IN  /\ \A r \in inflight : GwURIStr(r.username, r.host) # gwURIStr
        /\ IF reg = Null THEN TRUE
           ELSE reg.expires * 1000 - (t - reg.registeredOn) <= 0

\* Variants of isExpired: one that only looks for the entry, one whose
\* comparison is strict.
isExpiredAbsentOnly(c, t, gwURIStr) ==
    getIfPresent(c, t, gwURIStr) = Null

isExpiredStrict(c, t, gwURIStr) ==
    LET reg == getIfPresent(c, t, gwURIStr)
    IN  IF reg = Null THEN TRUE
        ELSE reg.expires * 1000 - (t - reg.registeredOn) < 0

\* (Date.now() - reg.registeredOn) / 1000 is compared with reg.expires; both
\* sides are scaled by 1000 to stay in the integers.
isExpired(c, t, gwURIStr) ==
    LET reg == getIfPresent(c, t, gwURIStr)
    IN  IF reg = Null THEN TRUE
        ELSE reg.expires * 1000 - (t - reg.registeredOn) <= 0


(***************************************************************************)
(* Initial state: a constructed Registry, start() not yet called.          *)
(***************************************************************************)
Idle == [phase |-> "idle", result |-> <<>>, cnt |-> 0, r |-> 0]

NoTick == [n |-> 0, status |-> "none", result |-> <<>>, startEmpty |-> TRUE,
           examined |-> {}, dispatched |-> {}, raised |-> FALSE, done |-> TRUE]

NoExam == [n |-> 0, ref |-> "none", gwHost |-> "none", primary |-> TRUE,
           hasCredentials |-> TRUE, primaryEntry |-> Null, hostEntry |-> Null,
           hostURI |-> "none", at |-> 0, lp |-> TRUE, outcome |-> "none",
           cseq |-> 0]

NoStore == [key |-> "none", expires |-> 0, at |-> 0, n |-> 0]

NoRemove == [key |-> "none", entry |-> Null]

\* obs.built lists the CSeq of every REGISTER built so far, obs.failed the
\* gateways with a failed dispatch and no record stored under their primary
\* URI since; the other fields
\* describe the step just taken: the entry a storeRegistry replaced, the key
\* and entry a removeRegistry dropped, the records the cache maintenance
\* dropped.
NoObs == [built |-> <<>>, failed |-> {}, replaced |-> Null, removed |-> NoRemove,
          evicted |-> {}]

Settled(o) == [NoObs EXCEPT !.built = o.built, !.failed = o.failed]

(***************************************************************************)
(* Bookkeeping for the re-registration deadline: for the primary URI of    *)
(* each credentialed gateway, the time and granted lifetime of the last    *)
(* record stored under it (when the lifetime ends within the explored      *)
(* time), the ticks before the deadline that did not examine the gateway,  *)
(* and the time of the first REGISTER dispatched to its host since.        *)
(***************************************************************************)
PrimaryURIs ==
    {"sip:" \o g.username \o "@" \o g.host : g \in {x \in Gateways : x.hasCredentials}}

NoWatch == [at |-> -1, expires |-> 0, missed |-> 0, pending |-> FALSE,
            registeredAt |-> -1]

Deadline(w) == w.at + w.expires * 1000

Open(w, t) == w.at >= 0 /\ w.registeredAt < 0 /\ t < Deadline(w)

WatchOnStore(w, key, expires, t) ==
    IF key \in DOMAIN w
    THEN [w EXCEPT ![key] =
            IF expires > 120 /\ t + expires * 1000 <= MaxTime
            THEN [at |-> t, expires |-> expires, missed |-> 0,
                  pending |-> FALSE, registeredAt |-> -1]
            ELSE NoWatch]
    ELSE w

\* A tick begins: it counts as missed for a gateway until it examines it.
WatchOnTick(w, t) ==
    [k \in DOMAIN w |->
        IF Open(w[k], t)
        THEN [w[k] EXCEPT !.missed = @ + 1, !.pending = TRUE]
        ELSE w[k]]

\* The running tick examines the gateway's primary host.
WatchOnExam(w, key, dispatched, t) ==
    IF key \in DOMAIN w /\ Open(w[key], t)
    THEN [w EXCEPT ![key] =
            [at |-> w[key].at, expires |-> w[key].expires,
             missed |-> IF w[key].pending THEN w[key].missed - 1 ELSE w[key].missed,
             pending |-> FALSE,
             registeredAt |-> IF dispatched THEN t ELSE -1]]
    ELSE w

Init ==
    /\ now = 0
    /\ registry = << >>
    /\ cseq = 0
    /\ timer = "unstarted"
    /\ nextTick = 0
    /\ tickCount = 0
    /\ tick = Idle
    /\ inflight = {}
    /\ stopCalled = FALSE
    /\ lastTick = NoTick
    /\ lastExam = NoExam
    /\ lastStore = NoStore
    /\ watch = [k \in PrimaryURIs |-> NoWatch]
    /\ obs = NoObs

(***************************************************************************)
(* start() and stop().                                                     *)
(***************************************************************************)
start ==
    /\ timer = "unstarted"
    /\ timer' = "running"
    /\ nextTick' = now + InitialDelay
    /\ obs' = Settled(obs)
    /\ UNCHANGED <<now, registry, cseq, tickCount, tick, inflight, stopCalled,
                   lastTick, lastExam, lastStore, watch>>

\* stop() has an empty body; stopCalled only records that it was called.
stop ==
    /\ timer # "unstarted"
    /\ ~stopCalled
    /\ stopCalled' = TRUE
    /\ obs' = Settled(obs)
    /\ UNCHANGED <<now, registry, cseq, timer, nextTick, tickCount, tick,
                   inflight, lastTick, lastExam, lastStore, watch>>

(***************************************************************************)
(* Building and dispatching a REGISTER.                                    *)
(***************************************************************************)
handleChallengeException(gwHost) ==
    registry' = invalidate(registry, gwHost)

\* getNewClientTransaction / clientTransaction.sendRequest either hand the
\* request to the provider or throw.
sendRequest(request, gwHost, outcome) ==
    \/ /\ outcome = "sent"
       /\ Cardinality(inflight) < MaxInFlight
       /\ inflight' = inflight \cup {request}
       /\ UNCHANGED registry
    \/ /\ outcome = "failed"
       /\ handleChallengeException(gwHost)
       /\ UNCHANGED inflight

\* Variant that advances the counter only when the dispatch succeeds.
requestChallengeCountsSent(username, gwRef, gwHost, transport, received, rport, expires, outcome) ==
    LET contactAddr == getLPAddress(transport, received, rport)
        request == [cseq |-> cseq, ref |-> gwRef, username |-> username,
                    host |-> gwHost, expires |-> expires]
    IN  IF contactAddr = Undefined
        THEN /\ outcome = "raised"
             /\ obs' = Settled(obs)
             /\ UNCHANGED <<cseq, inflight, registry>>
        ELSE /\ cseq' = IF outcome = "sent" THEN cseq + 1 ELSE cseq
             /\ obs' = [Settled(obs) EXCEPT
                           !.built = Append(@, request.cseq),
                           !.failed = IF outcome = "failed" THEN @ \cup {gwRef} ELSE @]
             /\ sendRequest(request, gwHost, outcome)

\* When getLPAddress returns undefined, reading contactAddr.host throws a
\* TypeError before the CSeq header is created.
requestChallenge(username, gwRef, gwHost, transport, received, rport, expires, outcome) ==
    LET contactAddr == getLPAddress(transport, received, rport)
        request == [cseq |-> cseq, ref |-> gwRef, username |-> username,
                    host |-> gwHost, expires |-> expires]
    IN  IF contactAddr = Undefined
        THEN /\ outcome = "raised"
             /\ obs' = Settled(obs)
             /\ UNCHANGED <<cseq, inflight, registry>>
        ELSE /\ cseq' = cseq + 1
             /\ obs' = [Settled(obs) EXCEPT
                           !.built = Append(@, request.cseq),
                           !.failed = IF outcome = "failed" THEN @ \cup {gwRef} ELSE @]
             /\ sendRequest(request, gwHost, outcome)

(***************************************************************************)
(* The task scheduled by start(): one execution is a tick.                 *)
(***************************************************************************)
TickDue == timer = "running" /\ tick.phase = "idle" /\ now >= nextTick

\* Variant without the credentials check.
HasCredentialsAlways(gateway) == TRUE

HasCredentials(gateway) == gateway.hasCredentials

\* The position after the gateway at cnt has been dealt with.
NextGateway(t) ==
    IF t.cnt < Len(t.result)
    THEN [t EXCEPT !.phase = "gateway", !.cnt = t.cnt + 1, !.r = 0]
    ELSE Idle

\* The position after the primary host of the gateway at cnt.
AfterPrimary(t) ==
    LET gateway == t.result[t.cnt]
    IN  IF gateway.hasRegistries /\ Len(gateway.registries) > 0
        THEN [t EXCEPT !.phase = "registries", !.r = 1]
        ELSE NextGateway(t)

\* The position after registry r of the gateway at cnt.
AfterRegistry(t) ==
    IF t.r < Len(t.result[t.cnt].registries)
    THEN [t EXCEPT !.r = t.r + 1]
    ELSE NextGateway(t)

RawEntry(c, k) == IF k \in DOMAIN c THEN c[k] ELSE Null

\* Variant of TickNotOK that empties the cache when the data store fails.
TickNotOKClearing ==
    /\ TickDue
    /\ tickCount < MaxTicks
    /\ \E response \in GatewayResponses :
         /\ response.status # "OK"
         /\ lastTick' = [n |-> tickCount + 1, status |-> response.status,
                         result |-> response.result,
                         startEmpty |-> asMap(registry, now) = {},
                         examined |-> {}, dispatched |-> {},
                         raised |-> FALSE, done |-> TRUE]
    /\ tickCount' = tickCount + 1
    /\ nextTick' = nextTick + Period
    /\ watch' = WatchOnTick(watch, now)
    /\ registry' = << >>
    /\ obs' = Settled(obs)
    /\ UNCHANGED <<now, cseq, timer, tick, inflight, stopCalled,
                   lastExam, lastStore>>

\* getGateways() answers with a status other than OK: the task returns.
TickNotOK ==
    /\ TickDue
    /\ tickCount < MaxTicks
    /\ \E response \in GatewayResponses :
         /\ response.status # "OK"
         /\ lastTick' = [n |-> tickCount + 1, status |-> response.status,
                         result |-> response.result,
                         startEmpty |-> asMap(registry, now) = {},
                         examined |-> {}, dispatched |-> {},
                         raised |-> FALSE, done |-> TRUE]
    /\ tickCount' = tickCount + 1
    /\ nextTick' = nextTick + Period
    /\ watch' = WatchOnTick(watch, now)
    /\ obs' = Settled(obs)
    /\ UNCHANGED <<now, registry, cseq, timer, tick, inflight, stopCalled,
                   lastExam, lastStore>>

\* getGateways() answers OK: the loop over response.result begins.
TickBegin ==
    /\ TickDue
    /\ tickCount < MaxTicks
    /\ \E response \in GatewayResponses :
         /\ response.status = "OK"
         /\ tick' = NextGateway([phase |-> "gateway", result |-> response.result,
                                 cnt |-> 0, r |-> 0])
         /\ lastTick' = [n |-> tickCount + 1, status |-> response.status,
                         result |-> response.result,
                         startEmpty |-> asMap(registry, now) = {},
                         examined |-> {}, dispatched |-> {},
                         raised |-> FALSE, done |-> response.result = <<>>]
    /\ tickCount' = tickCount + 1
    /\ nextTick' = nextTick + Period
    /\ watch' = WatchOnTick(watch, now)
    /\ obs' = Settled(obs)
    /\ UNCHANGED <<now, registry, cseq, timer, inflight, stopCalled,
                   lastExam, lastStore>>

\* if (gateway.spec.credentials === undefined) continue
SkipGateway ==
    /\ tick.phase = "gateway"
    /\ LET gateway == tick.result[tick.cnt]
       IN  /\ ~HasCredentials(gateway)
           /\ tick' = NextGateway(tick)
           /\ lastExam' = [n |-> tickCount, ref |-> gateway.ref,
                           gwHost |-> gateway.host, primary |-> TRUE,
                           hasCredentials |-> FALSE,
                           primaryEntry |-> Null, hostEntry |-> Null,
                           hostURI |-> "none", at |-> now, lp |-> TRUE,
                           outcome |-> "skipped", cseq |-> cseq]
           /\ lastTick' = [lastTick EXCEPT !.done = tick'.phase = "idle"]
    /\ obs' = Settled(obs)
    /\ UNCHANGED <<now, registry, cseq, timer, nextTick, tickCount, inflight,
                   stopCalled, lastStore, watch>>

\* Variant in which each host is checked under its own URI.
CheckedURIOfHost(gateway, gwHost) == GwURIStr(gateway.username, gwHost)

\* The URI whose record decides whether a REGISTER to gwHost is built:
\* gwURIStr, 'sip:' + username + '@' + gateway.spec.host, for the gateway's
\* host and for each of its registries alike.
CheckedURI(gateway, gwHost) == GwURIStr(gateway.username, gateway.host)

\* if (self.isExpired(gwURIStr)) self.requestChallenge(..., gwHost, ...)
\* for the gateway at cnt and one of its hosts; an exception thrown by
\* requestChallenge ends the task, and what the timer does with a task that
\* threw is not decided in this file.
Examine(gateway, gwHost, primary, nextPos) ==
    LET username == gateway.username
        gwURIStr == GwURIStr(username, gateway.host)
        expires == IF gateway.expires # 0 THEN gateway.expires ELSE DefaultExpires
        exam(outcome) ==
            [n |-> tickCount, ref |-> gateway.ref, gwHost |-> gwHost,
             primary |-> primary, hasCredentials |-> TRUE,
             primaryEntry |-> RawEntry(registry, gwURIStr),
             hostEntry |-> RawEntry(registry, GwURIStr(username, gwHost)),
             hostURI |-> GwURIStr(username, gwHost), at |-> now,
             lp |-> gateway.transport \in ListeningPoints,
             outcome |-> outcome, cseq |-> cseq]
    IN  /\ IF isExpired(registry, now, CheckedURI(gateway, gwHost))
           THEN \E outcome \in {"sent", "failed", "raised"} :
                  /\ cseq < MaxCSeq
                  /\ requestChallenge(username, gateway.ref, gwHost,
                                      gateway.transport, Null, Null, expires, outcome)
                  /\ lastExam' = exam(outcome)
                  /\ watch' = IF primary
                              THEN WatchOnExam(watch, gwURIStr, outcome # "raised", now)
                              ELSE watch
                  /\ IF outcome = "raised"
                     THEN /\ tick' = Idle
                          /\ timer' \in {"running", "dead"}
                          /\ lastTick' = [lastTick EXCEPT
                                 !.examined = @ \cup {gateway.ref},
                                 !.raised = TRUE, !.done = TRUE]
                     ELSE /\ tick' = nextPos
                          /\ timer' = timer
                          /\ lastTick' = [lastTick EXCEPT
                                 !.examined = @ \cup {gateway.ref},
                                 !.dispatched = @ \cup {<<gateway.ref, gwHost>>},
                                 !.done = nextPos.phase = "idle"]
           ELSE /\ UNCHANGED <<cseq, inflight, registry, timer>>
                /\ obs' = Settled(obs)
                /\ tick' = nextPos
                /\ lastExam' = exam("none")
                /\ watch' = IF primary
                            THEN WatchOnExam(watch, gwURIStr, FALSE, now)
                            ELSE watch
                /\ lastTick' = [lastTick EXCEPT
                       !.examined = @ \cup {gateway.ref},
                       !.done = nextPos.phase = "idle"]
        /\ UNCHANGED <<now, nextTick, tickCount, stopCalled, lastStore>>

ExamineGateway ==
    /\ tick.phase = "gateway"
    /\ HasCredentials(tick.result[tick.cnt])
    /\ Examine(tick.result[tick.cnt], tick.result[tick.cnt].host, TRUE,
               AfterPrimary(tick))

ExamineRegistry ==
    /\ tick.phase = "registries"
    /\ Examine(tick.result[tick.cnt], tick.result[tick.cnt].registries[tick.r],
               FALSE, AfterRegistry(tick))

(***************************************************************************)
(* The response listener (elsewhere in the repository): a 200 OK to a      *)
(* REGISTER stores the registration, a final failure or a transaction      *)
(* timeout removes it.                                                     *)
(***************************************************************************)
Response200 ==
    \E request \in inflight, expires \in Lifetimes, ip \in HostAddresses :
        LET gwURI == [user |-> request.username, host |-> request.host]
        IN  /\ registry' = storeRegistry(registry, now, gwURI, expires, ip)
            /\ lastStore' = [key |-> URIToString(gwURI), expires |-> expires,
                             at |-> now, n |-> cseq]
            /\ watch' = WatchOnStore(watch, URIToString(gwURI), expires, now)
            /\ obs' = [Settled(obs) EXCEPT
                          !.replaced = RawEntry(registry, URIToString(gwURI)),
                          !.failed = IF URIToString(gwURI) \in PrimaryURIs
                                     THEN @ \ {request.ref} ELSE @]
            /\ inflight' = inflight \ {request}
            /\ UNCHANGED <<now, cseq, timer, nextTick, tickCount, tick,
                           stopCalled, lastTick, lastExam>>

\* InetAddress.getByName throws UnknownHostException: storeRegistry does not
\* reach the put.
Response200Unresolved ==
    \E request \in inflight :
        /\ inflight' = inflight \ {request}
        /\ lastStore' = NoStore
        /\ obs' = Settled(obs)
        /\ UNCHANGED <<now, registry, cseq, timer, nextTick, tickCount, tick,
                       stopCalled, lastTick, lastExam, watch>>

ResponseFailure ==
    \E request \in inflight :
        /\ registry' = removeRegistry(registry, GwURIStr(request.username, request.host))
        /\ obs' = IF GwURIStr(request.username, request.host) \in DOMAIN registry
                  THEN [Settled(obs) EXCEPT !.removed =
                          [key |-> GwURIStr(request.username, request.host),
                           entry |-> registry[GwURIStr(request.username, request.host)]]]
                  ELSE Settled(obs)
        /\ inflight' = inflight \ {request}
        /\ lastStore' = NoStore
        /\ UNCHANGED <<now, cseq, timer, nextTick, tickCount, tick,
                       stopCalled, lastTick, lastExam, watch>>

(***************************************************************************)
(* The environment: the clock and the cache's own maintenance.             *)
(***************************************************************************)
\* The next clock value: a step ahead, or the instant the task is next due
\* when that comes first.
NextInstant ==
    IF timer = "running" /\ now < nextTick /\ nextTick < now + TimeStep
    THEN nextTick
    ELSE now + TimeStep

\* A tick is short against the clock's step: the clock does not move while
\* one runs, and a due tick runs before the clock moves on.  The cache's
\* maintenance drops the entries that expire as time passes (no read sees
\* an expired entry either way).
Advance ==
    /\ timer # "unstarted"
    /\ tick.phase = "idle"
    /\ ~TickDue
    /\ now < MaxTime
    /\ now' = NextInstant
    /\ registry' = expireEntries(registry, now')
    /\ lastTick' = NoTick
    /\ lastExam' = NoExam
    /\ lastStore' = NoStore
    /\ obs' = [Settled(obs) EXCEPT
                  !.evicted = {registry[k].value : k \in DOMAIN registry \ asMap(registry, now')}]
    /\ UNCHANGED <<cseq, timer, nextTick, tickCount, tick, inflight, stopCalled,
                   watch>>

Next ==
    \/ start
    \/ stop
    \/ TickNotOK
    \/ TickBegin
    \/ SkipGateway
    \/ ExamineGateway
    \/ ExamineRegistry
    \/ Response200
    \/ Response200Unresolved
    \/ ResponseFailure
    \/ Advance

Spec == Init /\ [][Next]_vars

(***************************************************************************)
(* Properties.                                                             *)
(***************************************************************************)
\* The strings the cache can be asked about: the URI of every gateway host
\* and registry, the bare host names, and whatever key the cache holds.
HostsOf(g) ==
    {g.host} \cup {g.registries[i] : i \in 1..Len(g.registries)}

GatewayKeys ==
    UNION {{"sip:" \o g.username \o "@" \o h : h \in HostsOf(g)} : g \in Gateways}
        \cup UNION {HostsOf(g) : g \in Gateways}

AllKeys == GatewayKeys \cup DOMAIN registry

\* A cache entry that is present and younger than its record's lifetime.
LiveEntry(entry, t) ==
    /\ entry # Null
    /\ t - entry.writeTime < WriteExpiry
    /\ t - entry.value.registeredOn < entry.value.expires * 1000

\* The examination built a REGISTER and handed it to sendRequest.
Dispatched(e) == e.outcome \in {"sent", "failed"}

PrimaryExam(e) == e.n > 0 /\ e.hasCredentials /\ e.primary

\* C1 (as stated): when a tick with status OK examines a credentialed
\* gateway, a REGISTER to gateway.host is built and dispatched if and only
\* if the gateway's primary URI has no live record at that moment.
C1_AsStated ==
    PrimaryExam(lastExam) =>
        (Dispatched(lastExam) <=> ~LiveEntry(lastExam.primaryEntry, lastExam.at))

\* C1 (amended): when a tick with status OK examines a credentialed gateway,
\* a REGISTER to gateway.host is built and dispatched if and only if the
\* primary URI has no live record at that moment and the gateway's transport
\* has a listening point; with no live record and no listening point
\* requestChallenge throws and nothing is built; with a live record nothing
\* is built.
C1_RegisterIffExpiredAndListening ==
    PrimaryExam(lastExam) =>
        /\ Dispatched(lastExam) <=>
              (~LiveEntry(lastExam.primaryEntry, lastExam.at) /\ lastExam.lp)
        /\ lastExam.outcome = "raised" <=>
              (~LiveEntry(lastExam.primaryEntry, lastExam.at) /\ ~lastExam.lp)
        /\ LiveEntry(lastExam.primaryEntry, lastExam.at) => lastExam.outcome = "none"

\* A tick examined a credentialed gateway whose primary URI had a live
\* record, and built nothing.
C1_Witness ==
    /\ PrimaryExam(lastExam)
    /\ LiveEntry(lastExam.primaryEntry, lastExam.at)
    /\ lastExam.outcome = "none"

\* C2: isExpired(u) is true exactly when the cache has no entry for u or
\* (now - registeredOn)/1000 >= record.expires; so whenever isExpired(u) is
\* false a record exists and now - registeredOn < record.expires * 1000.
C2_IsExpiredIffAbsentOrAged ==
    \A u \in AllKeys :
        LET entry == RawEntry(registry, u)
            noEntry == entry = Null \/ now - entry.writeTime >= WriteExpiry
        IN  /\ isExpired(registry, now, u) <=>
                  (noEntry \/ now - entry.value.registeredOn >= entry.value.expires * 1000)
            /\ ~isExpired(registry, now, u) =>
                  /\ u \in DOMAIN registry
                  /\ now - registry[u].value.registeredOn < registry[u].value.expires * 1000

\* One URI has a live record while another has a record that has reached
\* its (positive) lifetime and is still in the cache.
C2_Witness ==
    \E u, v \in DOMAIN registry :
        /\ ~isExpired(registry, now, u)
        /\ isExpired(registry, now, v)
        /\ registry[v].value.expires > 0
        /\ getIfPresent(registry, now, v) # Null

\* C3: storeRegistry(gwURI, E) writes, under the key gwURI.toString(), a
\* record whose expires is E - 120 (checkExpiresTime = 1) and whose
\* registeredOn is the time of the write.
C3_StoredExpiresIsGrantedMinus120 ==
    [][ (lastStore' # lastStore /\ lastStore'.key # "none") =>
          LET k == lastStore'.key
          IN  /\ k \in DOMAIN registry'
              /\ registry'[k].value.expires = lastStore'.expires - 120
              /\ registry'[k].value.registeredOn = now'
              /\ k = "sip:" \o registry'[k].value.username \o "@" \o registry'[k].value.host
              /\ getIfPresent(registry', now', k) = registry'[k].value ]_vars

\* A record granted 150 s has just been stored with expires = 30.
C3_Witness ==
    /\ lastStore.key \in DOMAIN registry
    /\ lastStore.expires = 150
    /\ lastStore.at = now
    /\ registry[lastStore.key].value.expires = 30

\* C4: once a record is stored under a gateway's primary URI with granted
\* lifetime E > 120 s, and while the timer keeps running its period, a new
\* REGISTER is dispatched to the gateway's host strictly before E seconds
\* have passed since the store, provided at most one tick in between fails
\* to examine the gateway.
C4_ReRegisterBeforeLifetimeEnds ==
    \A k \in PrimaryURIs :
        (/\ watch[k].at >= 0
         /\ watch[k].expires > 120
         /\ now >= Deadline(watch[k])
         /\ watch[k].missed <= 1
         /\ timer = "running")
        => (/\ watch[k].registeredAt >= watch[k].at
            /\ watch[k].registeredAt < Deadline(watch[k]))

\* The lifetime of a stored record has run out, one tick in between did not
\* examine the gateway, and a REGISTER was dispatched in time.
C4_Witness ==
    \E k \in PrimaryURIs :
        /\ watch[k].at >= 0
        /\ now >= Deadline(watch[k])
        /\ watch[k].missed = 1
        /\ watch[k].registeredAt > watch[k].at
        /\ timer = "running"

\* C5 (as stated): when the dispatch of a REGISTER to gwHost fails and the
\* cache held a record under 'sip:<username>@<gwHost>', then once sendRequest
\* has returned getIfPresent of that URI is nil and listAsJSON omits the
\* record.
C5_FailedDispatchInvalidates ==
    [][ (/\ lastExam' # lastExam
         /\ lastExam'.outcome = "failed"
         /\ lastExam'.hostEntry # Null)
        => (/\ getIfPresent(registry', now', lastExam'.hostURI) = Null
            /\ lastExam'.hostEntry.value \notin listAsJSON(registry', now')) ]_vars

\* C6 (as stated): a tick never raises, and every credentialed gateway
\* getGateways returned is examined in it.
C6_TickNeverRaises ==
    (lastTick.status = "OK" /\ lastTick.done) =>
        /\ ~lastTick.raised
        /\ \A i \in 1..Len(lastTick.result) :
              lastTick.result[i].hasCredentials =>
                  lastTick.result[i].ref \in lastTick.examined

\* C7 (as stated): after stop() no further tick runs.
C7_NoTickAfterStop ==
    [][ stopCalled => tickCount' = tickCount ]_vars

\* The running tick stands at a gateway without spec.credentials.
AtNoCredentials ==
    tick.phase # "idle" /\ ~tick.result[tick.cnt].hasCredentials

\* C8: a tick that comes to a gateway without spec.credentials builds no
\* REGISTER for it (neither to its host nor to a registry) and leaves the
\* cache as it is; no REGISTER in flight carries such a gateway's ref.
C8_NoCredentialsNoRegister ==
    /\ [](\A request \in inflight :
            \A g \in Gateways : ~g.hasCredentials => request.ref # g.ref)
    /\ [][ (AtNoCredentials /\ tick' # tick) =>
             /\ cseq' = cseq
             /\ inflight' = inflight
             /\ registry' = registry
             /\ tick' = NextGateway(tick) ]_vars

\* A tick has just skipped a gateway without credentials while the cache
\* held a record.
C8_Witness ==
    /\ lastExam.outcome = "skipped"
    /\ lastExam.n = tickCount
    /\ DOMAIN registry # {}

\* C9: a tick in which getGateways answers with a status other than OK
\* builds no REGISTER, leaves every cache entry as it was, and does not
\* advance the CSeq counter.
C9_NotOKTickChangesNothing ==
    [][ (tickCount' # tickCount /\ lastTick'.status # "OK") =>
          /\ registry' = registry
          /\ cseq' = cseq
          /\ inflight' = inflight
          /\ tick' = Idle ]_vars

\* A tick has just ended on a status other than OK with records in the
\* cache.
C9_Witness ==
    /\ lastTick.n = tickCount
    /\ lastTick.status \notin {"OK", "none"}
    /\ ~lastTick.startEmpty
    /\ DOMAIN registry # {}

\* C10 (as stated): a tick that starts with an empty cache dispatches, for a
\* credentialed gateway with n registries, exactly n + 1 REGISTERs.
C10_EmptyCacheRegistersAll ==
    \A i \in 1..Len(lastTick.result) :
        LET g == lastTick.result[i]
        IN  (/\ lastTick.status = "OK"
             /\ lastTick.done
             /\ ~lastTick.raised
             /\ lastTick.startEmpty
             /\ g.hasCredentials)
            => Cardinality({d \in lastTick.dispatched : d[1] = g.ref})
                   = 1 + Len(g.registries)

\* The step is a storeRegistry that reached its put: lastStore is set by
\* it, and reset by every other response and by the clock; a store that
\* repeats the one before it replaces that one's entry.
StoreStep ==
    /\ lastStore'.key # "none"
    /\ lastStore' # lastStore \/ obs'.replaced # Null

\* C11: when the granted lifetime E is 120 s or less, storeRegistry still
\* writes the record: it is in listAsJSON with expires = E - 120 <= 0 and
\* isExpired of its URI is true right after the put; and a later tick that
\* examines the gateway while that record is under its primary URI
\* dispatches a REGISTER to the gateway's host.
C11_ShortLifetimeStoredAndRetried ==
    /\ [][ (StoreStep /\ lastStore'.expires <= 120) =>
             LET k == lastStore'.key
             IN  /\ k \in DOMAIN registry'
                 /\ registry'[k].value \in listAsJSON(registry', now')
                 /\ registry'[k].value.expires = lastStore'.expires - 120
                 /\ registry'[k].value.expires <= 0
                 /\ isExpired(registry', now', k) ]_vars
    /\ [](PrimaryExam(lastExam) =>
            ((lastExam.primaryEntry # Null /\ lastExam.primaryEntry.value.expires <= 0)
                => Dispatched(lastExam)))

\* A tick examined a gateway whose primary URI held a record granted 120 s
\* (stored expires = 0) at an earlier instant, and dispatched a REGISTER.
C11_Witness ==
    /\ PrimaryExam(lastExam)
    /\ lastExam.primaryEntry # Null
    /\ lastExam.primaryEntry.value.expires = 0
    /\ lastExam.primaryEntry.value.registeredOn < lastExam.at
    /\ Dispatched(lastExam)

\* C12: every cache entry goes checkExpiresTime minutes after its last
\* write, whatever its record's expires field.  An entry that getIfPresent
\* or listAsJSON returns was written less than that interval ago; when time
\* passes, an entry stays exactly while less than the interval has passed
\* since its write; and a storeRegistry restarts the interval of its own key
\* and leaves every other entry and its write time as they were.
C12_EvictedOneIntervalAfterWrite ==
    /\ [](/\ \A k \in DOMAIN registry :
                getIfPresent(registry, now, k) # Null =>
                    now - registry[k].value.registeredOn < checkExpiresTime * 60 * 1000
          /\ \A rec \in listAsJSON(registry, now) :
                now - rec.registeredOn < checkExpiresTime * 60 * 1000)
    /\ [][ now' # now =>
             \A k \in DOMAIN registry :
                LET kept == now' - registry[k].value.registeredOn < checkExpiresTime * 60 * 1000
                IN  /\ kept <=> getIfPresent(registry', now', k) = registry[k].value
                    /\ ~kept <=> getIfPresent(registry', now', k) = Null
                    /\ kept <=> registry[k].value \in listAsJSON(registry', now') ]_vars
    /\ [][ StoreStep =>
             /\ registry'[lastStore'.key].writeTime = now'
             /\ \A j \in DOMAIN registry' \ {lastStore'.key} :
                   j \in DOMAIN registry /\ registry'[j] = registry[j] ]_vars

\* The cache has just dropped a record whose own lifetime (3480 s) was far
\* from over, one interval after it was written.
C12_Witness ==
    \E rec \in obs.evicted :
        /\ rec.expires * 1000 > now - rec.registeredOn
        /\ now - rec.registeredOn >= checkExpiresTime * 60 * 1000
        /\ getIfPresent(registry, now, GwURIStr(rec.username, rec.host)) = Null
        /\ rec \notin listAsJSON(registry, now)

\* The records listAsJSON returns for the URI string u.
RecordsOf(c, t, u) ==
    {rec \in listAsJSON(c, t) : "sip:" \o rec.username \o "@" \o rec.host = u}

\* C13: keys are unique and the last write wins.  After every storeRegistry
\* for a URI u, whatever was stored for u before, the cache holds one entry
\* for u, listAsJSON has exactly one record for u, that record is the one
\* just written (granted lifetime less 120, registeredOn = time of the
\* write), and the entry of every other URI is unchanged.
C13_LastWriteWins ==
    /\ [][ StoreStep =>
             LET u == lastStore'.key
             IN  /\ u \in DOMAIN registry'
                 /\ getIfPresent(registry', now', u).expires = lastStore'.expires - 120
                 /\ getIfPresent(registry', now', u).registeredOn = now'
                 /\ RecordsOf(registry', now', u) = {getIfPresent(registry', now', u)}
                 /\ Cardinality(RecordsOf(registry', now', u)) = 1
                 /\ DOMAIN registry' = DOMAIN registry \cup {u}
                 /\ \A j \in DOMAIN registry \ {u} : registry'[j] = registry[j] ]_vars
    /\ [](\A u \in DOMAIN registry : Cardinality(RecordsOf(registry, now, u)) <= 1)

\* A storeRegistry has just replaced a different record of the same URI
\* while another URI had a record of its own.
C13_Witness ==
    /\ lastStore.key \in DOMAIN registry
    /\ obs.replaced # Null
    /\ obs.replaced.value # registry[lastStore.key].value
    /\ lastStore.at = now
    /\ RecordsOf(registry, now, lastStore.key) = {registry[lastStore.key].value}
    /\ DOMAIN registry # {lastStore.key}

\* C14: removeRegistry(u) of a URI that has an entry leaves none for u:
\* getIfPresent(u) is nil, isExpired(u) is true, listAsJSON has no record of
\* u, and every other entry is as it was; a removeRegistry of a key without
\* an entry (like a response that stores and removes nothing) leaves the
\* cache as it was.
C14_RemoveLeavesNoEntry ==
    /\ [][ obs'.removed.key # "none" =>
             LET u == obs'.removed.key
             IN  /\ u \in DOMAIN registry
                 /\ getIfPresent(registry', now', u) = Null
                 /\ isExpired(registry', now', u)
                 /\ obs'.removed.entry.value \notin listAsJSON(registry', now')
                 /\ RecordsOf(registry', now', u) = {}
                 /\ DOMAIN registry' = DOMAIN registry \ {u}
                 /\ \A j \in DOMAIN registry' : registry'[j] = registry[j] ]_vars
    /\ [][ (/\ Cardinality(inflight') < Cardinality(inflight)
            /\ ~StoreStep
            /\ obs'.removed.key = "none")
           => registry' = registry ]_vars

\* removeRegistry has just dropped a live record while another URI keeps
\* its own.
C14_Witness ==
    /\ obs.removed.key # "none"
    /\ LiveEntry(obs.removed.entry, now)
    /\ getIfPresent(registry, now, obs.removed.key) = Null
    /\ isExpired(registry, now, obs.removed.key)
    /\ DOMAIN registry # {}

\* C15: the CSeq counter is one counter for all gateways and registries.
\* The REGISTERs built so far carry strictly increasing CSeq values, so no
\* two carry the same; the counter has advanced by exactly one for each of
\* them, whether its dispatch succeeded or failed; and an examination that
\* built nothing left the counter alone.
C15_CSeqStrictlyIncreasing ==
    /\ Len(obs.built) = cseq
    /\ \A i, j \in 1..Len(obs.built) : i < j => obs.built[i] < obs.built[j]
    /\ \A r \in inflight : \E i \in 1..Len(obs.built) : obs.built[i] = r.cseq
    /\ \A r1, r2 \in inflight : r1.cseq = r2.cseq => r1 = r2
    /\ (lastExam.n > 0 /\ Dispatched(lastExam)) =>
          /\ lastExam.cseq < cseq
          /\ obs.built[lastExam.cseq + 1] = lastExam.cseq
    /\ (lastExam.n > 0 /\ ~Dispatched(lastExam)) => lastExam.cseq <= cseq

\* A REGISTER whose dispatch failed has just been built with the CSeq that
\* follows that of a REGISTER to another host, which is still in flight.
C15_Witness ==
    /\ lastExam.outcome = "failed"
    /\ Len(obs.built) >= 2
    /\ obs.built[Len(obs.built)] = lastExam.cseq
    /\ cseq = lastExam.cseq + 1
    /\ \E r \in inflight : r.host # lastExam.gwHost /\ r.cseq = lastExam.cseq - 1

RegistryExam(e) == e.n > 0 /\ e.hasCredentials /\ ~e.primary

InFlightFor(e) == {r \in inflight : GwURIStr(r.username, r.host) = e.hostURI}

\* C17: the loop keeps no record of REGISTERs it has sent.  A tick that
\* examines a credentialed gateway whose primary URI has no live record
\* builds and dispatches a REGISTER also when an earlier REGISTER for the
\* same URI is still unanswered, and when the dispatch succeeds two or more
\* REGISTERs are in flight for the one URI.
C17_InFlightDoesNotSuppress ==
    [][ (/\ lastExam' # lastExam
         /\ PrimaryExam(lastExam')
         /\ \E r \in inflight : GwURIStr(r.username, r.host) = lastExam'.hostURI
         /\ ~LiveEntry(lastExam'.primaryEntry, lastExam'.at))
        => /\ Dispatched(lastExam')
           /\ lastExam'.outcome = "sent" =>
                 /\ Cardinality({r \in inflight' :
                        GwURIStr(r.username, r.host) = lastExam'.hostURI}) >= 2
                 /\ inflight \subseteq inflight' ]_vars

\* A tick has just sent a REGISTER for a primary URI for which an earlier
\* REGISTER was still in flight: two are outstanding for one URI.
C17_Witness ==
    /\ PrimaryExam(lastExam)
    /\ lastExam.outcome = "sent"
    /\ Cardinality(InFlightFor(lastExam)) >= 2
    /\ \E r \in InFlightFor(lastExam) : r.cseq = lastExam.cseq

\* C18 (as stated): no error stops the control loop and a failed attempt is
\* retried.  Once the dispatch for a credentialed gateway has failed and no
\* record has been stored under its primary URI since, the timer keeps
\* running and every tick with status OK that getGateways answers with that
\* gateway dispatches a REGISTER to its host.
C18_FailedAttemptRetried ==
    /\ obs.failed # {} => timer = "running"
    /\ (lastTick.status = "OK" /\ lastTick.done) =>
          \A i \in 1..Len(lastTick.result) :
              LET g == lastTick.result[i]
              IN  (g.hasCredentials /\ g.ref \in obs.failed)
                      => <<g.ref, g.host>> \in lastTick.dispatched

\* C19: a record keeps a gateway registered for less than checkExpiresTime
\* minutes after its last write, whatever lifetime was granted: isExpired of
\* a URI is false only while less than that has passed since the last
\* storeRegistry for it; so a tick that examines a gateway (whose transport
\* has a listening point) and builds no REGISTER found a record stored less
\* than one period before, that is after the tick before it, and the second
\* tick after a store that examines the gateway dispatches a REGISTER.
C19_RegisteredLessThanOneInterval ==
    /\ \A k \in DOMAIN registry :
          ~isExpired(registry, now, k) =>
              now - registry[k].value.registeredOn < checkExpiresTime * 60 * 1000
    /\ (PrimaryExam(lastExam) /\ lastExam.lp /\ ~Dispatched(lastExam)) =>
          /\ lastExam.outcome = "none"
          /\ lastExam.primaryEntry # Null
          /\ lastExam.at - lastExam.primaryEntry.value.registeredOn < Period

\* One interval after a record with 3480 s still to run was stored under a
\* gateway's primary URI, the cache has dropped it, isExpired of the URI is
\* true, and the next tick is due.
C19_Witness ==
    \E rec \in obs.evicted :
        /\ GwURIStr(rec.username, rec.host) \in PrimaryURIs
        /\ rec.expires = 3480
        /\ now - rec.registeredOn >= Period
        /\ isExpired(registry, now, GwURIStr(rec.username, rec.host))
        /\ TickDue
        /\ tickCount >= 1

=============================================================================
